---- MODULE Spec2Model ----
(***************************************************************************)
(* Model of the nats-rs wire-protocol core:                                *)
(*   - server/src/parser.rs : the incremental protocol decoder (Parser)    *)
(*   - client/src/client.rs : the connection and subscription manager      *)
(*                                                                         *)
(* Bytes are modelled as one-character strings; the four control bytes are *)
(* written "SP", "TAB", "CR", "LF".  A byte string is a sequence of bytes. *)
(*                                                                         *)
(* Two specifications share the module: ParserSpec drives one Parser with  *)
(* a byte stream cut into arbitrary chunks, ClientSpec drives one Client   *)
(* through subscribe calls against a nondeterministic broker.  Each leaves *)
(* the other component's variables untouched.                              *)
(***************************************************************************)
EXTENDS Integers, Naturals, Sequences, FiniteSets, TLC

VARIABLES
    parser,     \* the Parser object: state, buf, arg_len, msg_buf, msg_total_len, msg_len
    frames,     \* the frames encoded into the stream, in order
    stream,     \* the byte stream the caller feeds
    pos,        \* offset into stream at which the next parse call resumes
    nevents,    \* number of events parse has returned so far
    last,       \* result of the latest parse call
    split,      \* TRUE once the stream has been handed over in more than one call
    client,     \* the Client object: servers_info, server_idx, state, sid, subscriptions
    pc,         \* where the client's thread of control is
    call,       \* the subscribe call in progress (arguments, locals, loop counters)
    obs,        \* what the call in progress has done so far (history, not program state)
    res,        \* result of the latest subscribe call, once it has returned
    calls       \* number of subscribe calls started

parserVars == <<parser, frames, stream, pos, nevents, last, split>>
clientVars == <<client, pc, call, obs, res, calls>>
vars == <<parser, frames, stream, pos, nevents, last, split,
          client, pc, call, obs, res, calls>>

(***************************************************************************)
(* Bytes and text helpers                                                  *)
(***************************************************************************)
SP  == "SP"
TAB == "TAB"
CR  == "CR"
LF  == "LF"
NUL == "NUL"

Min(a, b) == IF a < b THEN a ELSE b

\* s[from+1 .. to] in 0-based half-open Rust notation &s[from..to]
Slice(s, from, to) == [k \in 1..(to - from) |-> s[from + k]]

RECURSIVE Concat(_)
Concat(ss) == IF ss = <<>> THEN <<>> ELSE Head(ss) \o Concat(Tail(ss))

DigitChars == <<"0", "1", "2", "3", "4", "5", "6", "7", "8", "9">>

IsDigit(c) == \E d \in 1..10 : DigitChars[d] = c

DigitVal(c) == (CHOOSE d \in 1..10 : DigitChars[d] = c) - 1

\* core::fmt Display for unsigned integers: decimal text, no sign, no padding
RECURSIVE ToDecimal(_)
ToDecimal(n) ==
    IF n < 10 THEN <<DigitChars[n + 1]>>
    ELSE ToDecimal(n \div 10) \o <<DigitChars[(n % 10) + 1]>>

RECURSIVE DigitsValue(_, _)
DigitsValue(s, acc) ==
    IF s = <<>> THEN acc
    ELSE DigitsValue(Tail(s), acc * 10 + DigitVal(Head(s)))

\* usize is 64 bits wide where the program is built.  The model keeps
\* UsizeBits of them, still wide enough for MAX_MSG_SIZE, so that a decimal
\* text beyond the range of usize fits the model's shortened argument buffer.
UsizeBits == 24
USIZE_MAX == 2^UsizeBits - 1

\* str::parse::<usize>(): an optional leading '+', then one or more decimal
\* digits whose value is within the range of usize; anything else is an
\* error.  (The text comes out of the argument buffer, so it has at most
\* BUF_LEN - 2 digits.)
ParseUsize(s) ==
    LET body == IF s # <<>> /\ Head(s) = "+" THEN Tail(s) ELSE s IN
    IF body = <<>> \/ \E k \in 1..Len(body) : ~IsDigit(body[k])
    THEN [ok |-> FALSE, v |-> 0]
    ELSE IF DigitsValue(body, 0) > USIZE_MAX
    THEN [ok |-> FALSE, v |-> 0]
    ELSE [ok |-> TRUE, v |-> DigitsValue(body, 0)]

\* s.split(' ') with the empty pieces skipped: the maximal runs of bytes
\* other than the space byte (a tab is not a separator here)
RECURSIVE SplitSpace(_, _, _)
SplitSpace(s, cur, acc) ==
    IF s = <<>> THEN (IF cur = <<>> THEN acc ELSE Append(acc, cur))
    ELSE IF Head(s) = SP
         THEN SplitSpace(Tail(s), <<>>, IF cur = <<>> THEN acc ELSE Append(acc, cur))
         ELSE SplitSpace(Tail(s), Append(cur, Head(s)), acc)

\* bytes that cannot occur in well-formed UTF-8
NonUtf8 == {"xFF"}

IsUtf8(s) == \A k \in 1..Len(s) : s[k] \notin NonUtf8

None == [some |-> FALSE, v |-> <<>>]
Some(x) == [some |-> TRUE, v |-> x]

(***************************************************************************)
(* Protocol decoder: server/src/parser.rs                                  *)
(***************************************************************************)
\* Capacity of the fixed argument/scratch buffer.  The program's value is
\* 512 (parser.rs:78); the model runs the same code over a shorter buffer so
\* that every chunking of every stream can be enumerated.
BUF_LEN == 10

\* largest accepted declared payload size, the literal 1 * 1024 * 1024
MAX_MSG_SIZE == 1048576

ERROR_PARSE == 1
ERROR_MESSAGE_SIZE_TOO_LARGE == 2

\* Parser::new
NewParser ==
    [state         |-> "OpStart",
     buf           |-> [k \in 1..BUF_LEN |-> NUL],
     arg_len       |-> 0,
     msg_buf       |-> None,
     msg_total_len |-> 0,
     msg_len       |-> 0]

\* Results of one parse call.  consumed is the usize of Ok((_, usize)).  at
\* is not part of the value returned: for an error or a panic it is the
\* index in the chunk of the byte at which the call ended.
NoMsg(n)    == [kind |-> "NoMsg", consumed |-> n, code |-> 0, ev |-> <<>>, at |-> 0]
SubRes(a)   == [kind |-> "Sub",   consumed |-> 0, code |-> 0, ev |-> a, at |-> 0]
PubRes(a)   == [kind |-> "Pub",   consumed |-> 0, code |-> 0, ev |-> a, at |-> 0]
NErr(c)     == [kind |-> "Err",   consumed |-> 0, code |-> c, ev |-> <<>>, at |-> 0]
PanicRes(w) == [kind |-> "Panic", consumed |-> 0, code |-> 0, ev |-> w, at |-> 0]

\* the bytes &self.buf[0..self.arg_len]
ArgBytes(p) == Slice(p.buf, 0, p.arg_len)

\* add_arg noticing a full buffer one byte late
arg_full_late(p) == p.arg_len > BUF_LEN

\* add_arg, `self.arg_len >= self.buf.len()`: the buffer holds no more
arg_full(p) == p.arg_len >= BUF_LEN

\* Parser::add_arg: the parser after the byte is stored, ok = FALSE when the
\* buffer is full
add_arg(p, b) ==
    IF arg_full(p)
    THEN [ok |-> FALSE, p |-> p]
    ELSE [ok |-> TRUE,
          p  |-> [p EXCEPT !.buf[p.arg_len + 1] = b, !.arg_len = p.arg_len + 1]]

\* add_msg with the argument offset forgotten
add_msg_index_no_offset(p) == p.msg_len

\* the index add_msg writes in the scratch buffer (0-based)
add_msg_index(p) == p.arg_len + p.msg_len

\* Parser::add_msg: ok = FALSE is the panic "message is large, should
\* allocate space" (or an out-of-range index)
add_msg(p, b) ==
    IF p.msg_buf.some
    THEN [ok |-> TRUE,
          p  |-> [p EXCEPT !.msg_buf = Some(Append(p.msg_buf.v, b)),
                           !.msg_len = p.msg_len + 1]]
    ELSE IF p.arg_len + p.msg_total_len > BUF_LEN \/ add_msg_index(p) >= BUF_LEN
         THEN [ok |-> FALSE, p |-> p]
         ELSE [ok |-> TRUE,
               p  |-> [p EXCEPT !.buf[add_msg_index(p) + 1] = b,
                                !.msg_len = p.msg_len + 1]]

\* the assignment of the three SubArg fields from the tokens of the line
sub_fields(toks) ==
    IF Len(toks) = 2
    THEN [subject |-> toks[1], sid |-> toks[2], queue |-> None]
    ELSE [subject |-> toks[1], sid |-> toks[2], queue |-> Some(toks[3])]

\* Parser::process_sub
process_sub(p) ==
    LET buf  == ArgBytes(p)
        toks == SplitSpace(buf, <<>>, <<>>)
    IN  IF ~IsUtf8(buf) THEN PanicRes("process_sub: from_utf8 unwrap")
        ELSE IF Len(toks) > 3 THEN NErr(ERROR_PARSE)
        ELSE IF Len(toks) \in {2, 3} THEN SubRes(sub_fields(toks))
        ELSE NErr(ERROR_PARSE)

\* the payload slice process_payload returns
payload_slice(p) ==
    IF p.msg_buf.some THEN p.msg_buf.v
    ELSE Slice(p.buf, p.arg_len, p.arg_len + p.msg_total_len)

\* Parser::process_payload
process_payload(p) ==
    LET toks == SplitSpace(ArgBytes(p), <<>>, <<>>) IN
    IF ~p.msg_buf.some /\ p.arg_len + p.msg_total_len > BUF_LEN
    THEN PanicRes("process_payload: slice out of range")
    ELSE IF Len(toks) > 2
    THEN PanicRes("process_payload: arg_buf index out of bounds")
    ELSE PubRes([subject  |-> IF Len(toks) >= 1 THEN toks[1] ELSE <<>>,
                 size_buf |-> IF Len(toks) >= 2 THEN toks[2] ELSE <<>>,
                 size     |-> p.msg_total_len,
                 msg      |-> payload_slice(p)])

\* Parser::process_payload_size: the text after the last space or tab of the
\* argument line, parsed as usize
process_payload_size(p) ==
    LET buf  == ArgBytes(p)
        dels == {k \in 1..Len(buf) : buf[k] = SP \/ buf[k] = TAB}
    IN  IF dels = {} THEN [ok |-> FALSE, v |-> 0]
        ELSE LET lastd == CHOOSE k \in dels : \A j \in dels : j <= k
                 rpos  == Len(buf) - lastd
             IN  ParseUsize(Slice(buf, p.arg_len - rpos, p.arg_len))

\* the '\n' arm of OpPubArg letting one byte too many stay in the scratch
\* buffer
needs_overflow_late(p, size) == size + p.arg_len > BUF_LEN + 1 /\ ~p.msg_buf.some

\* whether the payload goes to a newly allocated overflow buffer (parse, the
\* '\n' arm of OpPubArg)
needs_overflow(p, size) == size + p.arg_len > BUF_LEN /\ ~p.msg_buf.some

\* the '\n' arm of OpPubArg: the parser and, on failure, the error returned
pub_arg_done(p) ==
    LET p1 == [p EXCEPT !.state = "OpMsgPayload"]
        sz == process_payload_size(p1)
    IN  IF ~sz.ok THEN [ctl |-> "ret", p |-> p1, res |-> NErr(ERROR_PARSE)]
        ELSE IF sz.v = 0 \/ sz.v > MAX_MSG_SIZE
        THEN [ctl |-> "ret", p |-> p1, res |-> NErr(ERROR_MESSAGE_SIZE_TOO_LARGE)]
        ELSE [ctl |-> "next",
              p   |-> [p1 EXCEPT !.msg_buf = IF needs_overflow(p1, sz.v)
                                             THEN Some(<<>>) ELSE p1.msg_buf,
                                 !.msg_total_len = sz.v],
              res |-> NoMsg(0)]

\* what the parser is left as when a frame completes (parse, the '\n' arms of
\* OpMsgEnd and OpSubArg)
frame_done(p) == [p EXCEPT !.state = "OpStart"]

\* One turn of the while loop of Parser::parse on byte b.  ctl is "next"
\* (fall through to i += 1), "again" (continue, the byte is matched again) or
\* "ret" (return res; for an event the caller of this operator adds i + 1).
ParseByte(p, b) ==
    LET Go(st)  == [ctl |-> "next", p |-> [p EXCEPT !.state = st], res |-> NoMsg(0)]
        Stay    == [ctl |-> "next", p |-> p, res |-> NoMsg(0)]
        Fail    == [ctl |-> "ret", p |-> p, res |-> NErr(ERROR_PARSE)]
        Arg     == LET a == add_arg(p, b) IN
                   IF a.ok THEN [ctl |-> "next", p |-> a.p, res |-> NoMsg(0)]
                   ELSE Fail
    IN
    CASE p.state = "OpStart" ->
            IF b \in {"P", "p"} THEN Go("OpP")
            ELSE IF b \in {"S", "s"} THEN Go("OpS")
            ELSE Fail
      [] p.state = "OpP"   -> IF b \in {"U", "u"} THEN Go("OpPu") ELSE Fail
      [] p.state = "OpPu"  -> IF b \in {"B", "b"} THEN Go("OpPub") ELSE Fail
      [] p.state = "OpPub" -> IF b \in {SP, TAB} THEN Go("OpPubSpace") ELSE Fail
      [] p.state = "OpPubSpace" ->
            IF b \in {SP, TAB} THEN Stay
            ELSE [ctl |-> "again",
                  p   |-> [p EXCEPT !.state = "OpPubArg", !.arg_len = 0],
                  res |-> NoMsg(0)]
      [] p.state = "OpPubArg" ->
            IF b = CR THEN Stay
            ELSE IF b = LF THEN pub_arg_done(p)
            ELSE Arg
      [] p.state = "OpMsgPayload" ->
            IF p.msg_len < p.msg_total_len
            THEN LET a == add_msg(p, b) IN
                 IF a.ok THEN [ctl |-> "next", p |-> a.p, res |-> NoMsg(0)]
                 ELSE [ctl |-> "ret", p |-> p, res |-> PanicRes("add_msg")]
            ELSE Go("OpMsgEnd")
      [] p.state = "OpMsgEnd" ->
            IF b \in {SP, TAB} THEN Stay
            ELSE IF b = LF
            THEN [ctl |-> "ret", p |-> frame_done(p),
                  res |-> process_payload(frame_done(p))]
            ELSE Fail
      [] p.state = "OpS"   -> IF b = "U" THEN Go("OpSu") ELSE Fail
      [] p.state = "OpSu"  -> IF b = "B" THEN Go("OpSub") ELSE Fail
      [] p.state = "OpSub" -> IF b \in {SP, TAB} THEN Go("OPSubSpace") ELSE Fail
      [] p.state = "OPSubSpace" ->
            IF b \in {SP, TAB} THEN Stay
            ELSE [ctl |-> "again",
                  p   |-> [p EXCEPT !.state = "OpSubArg", !.arg_len = 0],
                  res |-> NoMsg(0)]
      [] p.state = "OpSubArg" ->
            IF b = CR THEN Stay
            ELSE IF b = LF
            THEN [ctl |-> "ret", p |-> frame_done(p),
                  res |-> process_sub(frame_done(p))]
            ELSE Arg

\* parse reporting one byte fewer than it went through
no_msg_consumed_short(chunk) == Len(chunk) - 1

\* parse, `Ok((ParseResult::NoMsg, buf.len()))`: the whole chunk is consumed
no_msg_consumed(chunk) == Len(chunk)

\* Parser::parse(buf): the while loop from index i (0-based) on.  Returns the
\* parser after the call and the call's result.
RECURSIVE ParseFrom(_, _, _)
ParseFrom(p, chunk, i) ==
    IF i >= Len(chunk) THEN [p |-> p, res |-> NoMsg(no_msg_consumed(chunk))]
    ELSE LET r == ParseByte(p, chunk[i + 1]) IN
         CASE r.ctl = "next"  -> ParseFrom(r.p, chunk, i + 1)
           [] r.ctl = "again" -> ParseFrom(r.p, chunk, i)
           [] r.ctl = "ret"   ->
                [p   |-> r.p,
                 res |-> IF r.res.kind \in {"Sub", "Pub"}
                         THEN [r.res EXCEPT !.consumed = i + 1]
                         ELSE [r.res EXCEPT !.at = i]]

parse(p, chunk) == ParseFrom(p, chunk, 0)

(***************************************************************************)
(* The encoder side of the wire protocol and the streams fed to the parser *)
(***************************************************************************)
\* "SUB <subject> [queue group] <sid>\r\n", as Client::subscribe_with_sid
\* formats it (sid already as text)
EncodeSub(subject, queue, sid) ==
    IF queue.some
    THEN <<"S", "U", "B", SP>> \o subject \o <<SP>> \o queue.v \o <<SP>> \o sid \o <<CR, LF>>
    ELSE <<"S", "U", "B", SP>> \o subject \o <<SP>> \o sid \o <<CR, LF>>

\* "PUB <subject> <#bytes>\r\n[payload]\r\n"
EncodePub(subject, payload) ==
    <<"P", "U", "B", SP>> \o subject \o <<SP>> \o ToDecimal(Len(payload))
        \o <<CR, LF>> \o payload \o <<CR, LF>>

SubFrame(subject, queue, sid) ==
    [op |-> "SUB", subject |-> subject, queue |-> queue, sid |-> sid, payload |-> <<>>]
PubFrame(subject, payload) ==
    [op |-> "PUB", subject |-> subject, queue |-> None, sid |-> <<>>, payload |-> payload]

Encode(f) ==
    IF f.op = "SUB" THEN EncodeSub(f.subject, f.queue, f.sid)
    ELSE EncodePub(f.subject, f.payload)

\* number of frames in one stream
MaxFrames == 2

\* after its first call the caller hands over up to MaxChunk bytes at a time,
\* or all that is left
MaxChunk == 3

\* payload bytes are drawn cyclically from this text, which holds the bytes
\* the grammar treats specially
PayloadText == <<"a", "b", CR, LF, SP>>
Payload(n, k) == [i \in 1..n |-> PayloadText[((i - 1 + k) % Len(PayloadText)) + 1]]

\* payloads, as <<size, offset into PayloadText>>, with sizes around the
\* capacity of the scratch buffer: with the argument line "F <n>" the sizes
\* BUF_LEN - 3 and below stay in place, the larger ones need the overflow
\* buffer
PayloadShapes ==
    {<<1, 0>>, <<2, 2>>, <<BUF_LEN - 3, 0>>, <<BUF_LEN - 2, 0>>, <<BUF_LEN, 2>>}

SubFrames ==
    {SubFrame(<<"f", "o">>, None, <<"1">>),
     SubFrame(<<"f", "o">>, Some(<<"q">>), <<"2", "3">>)}
\* a subject so long that the argument line "<subject> 1" is one byte more
\* than the scratch buffer holds
LongSubject == [k \in 1..(BUF_LEN - 1) |-> "x"]

PubFrames ==
    {PubFrame(<<"F">>, Payload(sh[1], sh[2])) : sh \in PayloadShapes}
    \cup {PubFrame(LongSubject, Payload(1, 0))}

\* the argument line of a frame (the text between the verb and CR LF), and
\* whether the scratch buffer can hold it
ArgLine(f) ==
    LET e == Encode(f) IN
    IF f.op = "SUB" THEN Slice(e, 4, Len(e) - 2)
    ELSE Slice(e, 4, Len(e) - 4 - Len(f.payload))
Fits(f) == Len(ArgLine(f)) <= BUF_LEN

Frames == SubFrames \cup PubFrames

FrameSeqs == UNION {[1..k -> Frames] : k \in 1..MaxFrames}

(***************************************************************************)
(* Byte streams that are not the encoding of a valid frame                 *)
(***************************************************************************)
PUB_VERB == <<"P", "U", "B">>
SUB_VERB == <<"S", "U", "B">>

\* one command as it arrives: the verb, one space, the argument line, CR LF,
\* and whatever follows
RawFrame(verb, line, rest) == [verb |-> verb, line |-> line, rest |-> rest]
RawEncode(r) == r.verb \o <<SP>> \o r.line \o <<CR, LF>> \o r.rest

\* offset just past the LF that ends the argument line
LineEnd(r) == Len(r.verb) + 1 + Len(r.line) + 2

XS(n) == [k \in 1..n |-> "x"]

\* PUB argument lines: byte counts 0, at and just over the bound, beyond the
\* range of usize; no delimiter; tails that are not numbers
PubArgLines ==
    {<<"F", SP, "0">>, <<"F", SP, "0", "0">>, <<"F", TAB, "0">>,
     <<"F", SP, "1", "0", "4", "8", "5", "7", "6">>,
     <<"F", SP, "1", "0", "4", "8", "5", "7", "7">>,
     <<"F", SP, "9", "9", "9", "9", "9", "9", "9", "9">>,
     <<"F">>, <<"F", SP, "x">>, <<"F", SP, "1", "x">>, <<"F", SP, "-", "1">>}

\* what follows a one-byte payload
TerminatorTails ==
    {<<CR, LF>>, <<CR, SP, TAB, LF>>, <<"X", LF>>, <<LF, LF>>, <<CR, "X", LF>>,
     <<CR, CR, LF>>, <<SP, CR, LF>>}

\* SUB argument lines with 0, 1, 2, 3 and 4 tokens, delimited by spaces, by
\* tabs, by runs of spaces
SubArgLines ==
    {<<>>, <<"a">>, <<"a", SP, "1">>, <<"a", SP, SP, "1">>, <<"a", TAB, "1">>,
     <<"a", SP, "q", SP, "1">>, <<"a", SP, "b", TAB, "c", SP, "d">>,
     <<"a", SP, "b", SP, "c", SP, "d">>}

\* argument lines of BUF_LEN bytes and of one and two bytes more
LongLines == {XS(n - 2) \o <<SP, "1">> : n \in BUF_LEN..(BUF_LEN + 2)}

\* a PUB argument line with three tokens; a SUB argument line holding a byte
\* that is not UTF-8
ThreeTokenPub == RawFrame(PUB_VERB, <<"a", SP, "b", SP, "1">>, <<"x", CR, LF>>)
NonUtf8Sub == RawFrame(SUB_VERB, <<"f", "xFF", SP, "1">>, <<>>)

\* the lower-case form of a verb letter
Lower(c) ==
    CASE c = "P" -> "p" [] c = "U" -> "u" [] c = "B" -> "b" [] c = "S" -> "s"

\* the verb in every mix of upper and lower case
Casings(verb) ==
    {<<a, b, c>> : a \in {verb[1], Lower(verb[1])},
                   b \in {verb[2], Lower(verb[2])},
                   c \in {verb[3], Lower(verb[3])}}

\* PUB argument lines whose two fields are separated by a tab or by several
\* delimiters, each followed by its one-byte payload
DelimitedPubs ==
    {RawFrame(PUB_VERB, l, <<"a", CR, LF>>) :
        l \in {<<"F", TAB, "1">>, <<"F", SP, SP, "1">>, <<"F", SP, TAB, "1">>}}

\* streams of two commands: the second one follows the first one's CR LF
TwoCommands ==
    LET sub1 == <<"f", "o", SP, "1">>
        pub1 == <<"F", SP, "1">>
        subB == SUB_VERB \o <<SP>> \o sub1 \o <<CR, LF>>
        pubB == PUB_VERB \o <<SP>> \o pub1 \o <<CR, LF, "a", CR, LF>>
    IN  {RawFrame(SUB_VERB, sub1, subB), RawFrame(SUB_VERB, sub1, pubB),
         RawFrame(PUB_VERB, pub1, <<"a", CR, LF>> \o subB),
         RawFrame(PUB_VERB, pub1, <<"a", CR, LF>> \o pubB),
         RawFrame(SUB_VERB, sub1, <<"s", "u", "b", SP>> \o sub1 \o <<CR, LF>>)}

RawFrames ==
    {RawFrame(PUB_VERB, l, <<"a">>) : l \in PubArgLines}
    \cup {RawFrame(PUB_VERB, <<"F", SP, "1">>, <<"a">> \o t) : t \in TerminatorTails}
    \cup {RawFrame(SUB_VERB, l, <<>>) : l \in SubArgLines}
    \cup {RawFrame(SUB_VERB, l, <<>>) : l \in LongLines}
    \cup {RawFrame(PUB_VERB, l, <<"a", CR, LF>>) : l \in LongLines}
    \cup {ThreeTokenPub, NonUtf8Sub}
    \cup DelimitedPubs
    \cup TwoCommands
    \cup {RawFrame(c, <<"f", "o", SP, "1">>, <<>>) : c \in Casings(SUB_VERB)}
    \cup {RawFrame(c, <<"F", SP, "1">>, <<"a", CR, LF>>) : c \in Casings(PUB_VERB)}

(***************************************************************************)
(* Connection and subscription manager: client/src/client.rs               *)
(***************************************************************************)
RETRIES_MAX == 5
CIRCUIT_BREAKER_ROUNDS_BEFORE_BREAKING == 4

\* number of candidate endpoints, subscribe calls per client, and lines the
\* broker sends in reply to one SUB frame
MaxServers == 2
MaxCalls == 2
MaxReplies == 2

\* the sid counter is a u64 in the program; the model keeps 16 bits of it
SidModulus == 2^16
wrapping_add(x, y) == (x + y) % SidModulus

NoState == [some |-> FALSE, endpoint |-> 0]
\* ClientState {stream_writer, buf_reader}: both handles of the transport to
\* one endpoint
ClientState(e) == [some |-> TRUE, endpoint |-> e]

\* Result<_, NatsClientError> values
OkChannel(sid) ==
    [ok |-> TRUE, sid |-> sid, kind |-> "", desc |-> "", detail |-> <<>>]
OkUnit == OkChannel(0)
Err(kind, desc) ==
    [ok |-> FALSE, sid |-> 0, kind |-> kind, desc |-> desc, detail |-> <<>>]
ErrDetail(kind, desc, detail) ==
    [ok |-> FALSE, sid |-> 0, kind |-> kind, desc |-> desc, detail |-> detail]
\* res while no call has finished or one is in progress
NoResult == Err("", "no result")

ClusterUnreachable ==
    Err("ServerProtocolError", "The entire cluster is down or unreachable")

\* check_space: str::contains(" ")
check_space(name, errmsg) ==
    IF \E k \in 1..Len(name) : name[k] = SP
    THEN Err("ClientProtocolError", errmsg)
    ELSE OkUnit

check_subject(subject) == check_space(subject, "Subject can't contain spaces")
check_queue(queue) == check_space(queue, "Queue name can't contain spaces")

\* the SUB command of Client::subscribe_with_sid
FormatSub(sub, sid) == EncodeSub(sub.subject, sub.queue, ToDecimal(sid))

(* Lines the broker may send.  A read is [err, line]: err is an I/O error of
   read_line, otherwise line holds the bytes read (empty at end of stream). *)
Line(l)  == [err |-> FALSE, line |-> l]
ReadErr  == [err |-> TRUE, line |-> <<>>]

INFO_LINE == <<"I", "N", "F", "O", SP, "{", "}", CR, LF>>
PONG_LINE == <<"P", "O", "N", "G", CR, LF>>
PING_LINE == <<"P", "I", "N", "G", CR, LF>>
OK_LINE   == <<"+", "O", "K", CR, LF>>
ERR_LINE  == <<"-", "E", "R", "R", CR, LF>>

InfoReads ==
    {Line(INFO_LINE), Line(<<>>), Line(<<"I", "N", "F", "O", CR, LF>>),
     Line(<<"H", "E", "L", "L", "O", SP, "{", "}", CR, LF>>),
     Line(<<"I", "N", "F", "O", SP, "{", "x", CR, LF>>), ReadErr}

PongReads ==
    {Line(PONG_LINE), Line(<<>>), Line(PING_LINE), Line(OK_LINE),
     Line(<<"P", "O", "N", "G", SP, CR, LF>>), ReadErr}

AckReads ==
    {Line(OK_LINE), Line(PING_LINE), Line(ERR_LINE), Line(<<>>),
     Line(<<"O", "K", LF>>), Line(<<"+", "O", "K", CR>>), ReadErr}

\* an endpoint that completes the handshake
GoodBroker ==
    [open |-> TRUE, clone |-> TRUE, info |-> Line(INFO_LINE), write |-> TRUE,
     pong |-> Line(PONG_LINE)]

\* what one endpoint does during one connection attempt: whether the
\* transport opens, whether the handle can be cloned, what the first read
\* returns, whether CONNECT/PING can be written, what the second read
\* returns.  Each behaviour departs from GoodBroker in at most one of them.
BrokerBehaviours ==
    {GoodBroker, [GoodBroker EXCEPT !.open = FALSE], [GoodBroker EXCEPT !.clone = FALSE],
     [GoodBroker EXCEPT !.write = FALSE]}
    \cup {[GoodBroker EXCEPT !.info = r] : r \in InfoReads}
    \cup {[GoodBroker EXCEPT !.pong = r] : r \in PongReads}

\* what the broker does after a SUB frame: whether the frame can be written,
\* the lines it sends back, and whether a PONG can be written (left TRUE
\* where nothing depends on it).  The lines are some PINGs and at most one
\* other read, which ends the wait; what the broker sends after it is not
\* read by this call.
AckBehaviours ==
    {a \in [write : BOOLEAN,
            replies : UNION {[1..k -> AckReads] : k \in 0..MaxReplies},
            pongw : BOOLEAN] :
        /\ ~a.write => (a.replies = <<>> /\ a.pongw)
        /\ ~a.pongw => (a.replies # <<>> /\ a.replies[1] = Line(PING_LINE))
        /\ \A k \in 1..(Len(a.replies) - 1) : a.replies[k] = Line(PING_LINE)}

StartsWith(s, prefix) ==
    Len(s) >= Len(prefix) /\ \A k \in 1..Len(prefix) : s[k] = prefix[k]

JsonWhitespace == {SP, TAB, CR, LF}

RECURSIVE TrimLeft(_)
TrimLeft(s) ==
    IF s # <<>> /\ Head(s) \in JsonWhitespace THEN TrimLeft(Tail(s)) ELSE s

RECURSIVE TrimRight(_)
TrimRight(s) ==
    IF s # <<>> /\ s[Len(s)] \in JsonWhitespace
    THEN TrimRight(Slice(s, 0, Len(s) - 1)) ELSE s

\* serde_json::de::from_str::<Value>: of the texts the model's broker sends,
\* the valid JSON documents are the empty object, surrounded by whitespace
JsonValid(s) == TrimRight(TrimLeft(s)) = <<"{", "}">>

\* Client::try_connect against an endpoint behaving as b: "ok" (the state is
\* installed), "err" (Err returned) or "panic"
try_connect(b) ==
    IF ~b.open THEN "err"
    ELSE IF ~b.clone THEN "err"
    ELSE IF b.info.err THEN "err"
    ELSE IF Len(b.info.line) < Len(<<"I", "N", "F", "O", SP, "{", "}">>) THEN "err"
    ELSE IF ~StartsWith(b.info.line, <<"I", "N", "F", "O", SP>>) THEN "err"
    ELSE IF ~JsonValid(Slice(b.info.line, 5, Len(b.info.line))) THEN "err"
    ELSE IF ~b.write THEN "panic"
    ELSE IF b.pong.err THEN "err"
    ELSE IF Len(b.pong.line) # Len(PONG_LINE) THEN "err"
    ELSE IF b.pong.line # PONG_LINE THEN "err"
    ELSE "ok"

\* one step of the client's traffic with the broker after the SUB frame
ReadOp(r)    == [op |-> "read", err |-> r.err, line |-> r.line]
WriteOp(l)   == [op |-> "write", err |-> FALSE, line |-> l]
WriteFail(l) == [op |-> "write", err |-> TRUE, line |-> l]

\* wait_ok taking a four-byte read for a short one as well
ack_short_inclusive(line) == Len(line) <= Len(<<"O", "K", CR, LF>>)

\* wait_ok, `line_len < "OK\r\n".len()`: the read is too short to be a reply
ack_short(line) == Len(line) < Len(<<"O", "K", CR, LF>>)

\* wait_ok: the result, the number of PONG frames written, and the reads and
\* writes in the order they happened
RECURSIVE wait_ok(_, _, _, _)
wait_ok(replies, pongw, pongs, io) ==
    LET r   == IF replies = <<>> THEN Line(<<>>) ELSE Head(replies)
        io1 == Append(io, ReadOp(r))
    IN
    IF r.err THEN [res |-> Err("IoError", "read_line"), pongs |-> pongs, io |-> io1]
    ELSE IF ack_short(r.line)
    THEN [res |-> Err("ServerProtocolError", "Incomplete server response"),
          pongs |-> pongs, io |-> io1]
    ELSE IF r.line = OK_LINE THEN [res |-> OkUnit, pongs |-> pongs, io |-> io1]
    ELSE IF r.line = PING_LINE
    THEN IF ~pongw
         THEN [res |-> Err("IoError", "write_all"), pongs |-> pongs,
               io |-> Append(io1, WriteFail(PONG_LINE))]
         ELSE wait_ok(Tail(replies), pongw, pongs + 1, Append(io1, WriteOp(PONG_LINE)))
    ELSE [res |-> ErrDetail("ServerProtocolError",
                            "Received unexpect response from server", r.line),
          pongs |-> pongs, io |-> io1]

\* the closure subscribe_with_sid hands to with_reconnect, run against a
\* broker behaving as a: its result, and what it wrote
send_sub(sid, a) ==
    IF ~a.write
    THEN [res |-> Err("IoError", "write_all"), sent |-> 0, pongs |-> 0, io |-> <<>>]
    ELSE LET w == wait_ok(a.replies, a.pongw, 0, <<>>) IN
         [res   |-> IF w.res.ok THEN OkChannel(sid) ELSE w.res,
          sent  |-> 1,
          pongs |-> w.pongs,
          io    |-> w.io]

(***************************************************************************)
(* The client's operations                                                 *)
(***************************************************************************)
ServersCount == Len(client.servers_info)

\* the endpoint try_connect dials: self.servers_info[self.server_idx]
CurrentEndpoint(c) == c.servers_info[c.server_idx + 1]

\* subscribe allocating the sid eagerly, before anything has succeeded
alloc_sid_eager(c) == [sid |-> c.sid, client |-> [c EXCEPT !.sid = wrapping_add(c.sid, 1)]]

\* subscribe, `let sid = self.sid`: the sid the call will use and the client
\* it leaves (the counter is not advanced here)
alloc_sid(c) == [sid |-> c.sid, client |-> c]

\* subscribe, the `if res.is_ok()` block: advance the counter, register
commit(c, sid, sub) ==
    [c EXCEPT !.sid = wrapping_add(c.sid, 1),
              !.subscriptions = [k \in (DOMAIN c.subscriptions) \cup {sid} |->
                                   IF k = sid THEN sub ELSE c.subscriptions[k]]]

\* connect running one round too many
rounds_left_inclusive(round) == round <= CIRCUIT_BREAKER_ROUNDS_BEFORE_BREAKING

\* connect, `for _ in 0..CIRCUIT_BREAKER_ROUNDS_BEFORE_BREAKING`
rounds_left(round) == round < CIRCUIT_BREAKER_ROUNDS_BEFORE_BREAKING

\* connect advancing the index without wrapping it
next_idx_no_wrap(idx, n) == idx + 1

\* connect, the else arm: the next candidate
next_idx(idx, n) == (idx + 1) % n

\* try_connect installing the state as soon as the transport is open, before
\* the handshake
try_connect_state_early(b, e, old) ==
    IF b.open /\ b.clone THEN ClientState(e) ELSE old

\* the connection state try_connect leaves behind against behaviour b
try_connect_state(b, e, old) ==
    IF try_connect(b) = "ok" THEN ClientState(e) ELSE old

\* the stage of the handshake at which behaviour b makes try_connect fail
\* ("" when it succeeds); recorded in obs only
FailStage(b) ==
    IF ~b.open THEN "open"
    ELSE IF ~b.clone THEN "clone"
    ELSE IF b.info.err THEN "info read"
    ELSE IF Len(b.info.line) < 7 THEN "info short"
    ELSE IF ~StartsWith(b.info.line, <<"I", "N", "F", "O", SP>>) THEN "info prefix"
    ELSE IF ~JsonValid(Slice(b.info.line, 5, Len(b.info.line))) THEN "info json"
    ELSE IF ~b.write THEN "write"
    ELSE IF b.pong.err THEN "pong read"
    ELSE IF b.pong.line # PONG_LINE THEN "pong reply"
    ELSE ""

NoCall == [subject |-> <<>>, queue |-> None, sid |-> 0,
           round |-> 0, k |-> 0, i |-> 0, wres |-> NoResult]

NoObs == [sid0 |-> 0, subs0 |-> <<>>, idx0 |-> 0, attempts |-> 0, pauses |-> 0,
          oks |-> 0, tried |-> <<>>, stage |-> "", idx_before |-> 0,
          connect_ret |-> "none", harness |-> "none", fcalls |-> 0, sent |-> 0,
          pongs |-> 0, acked |-> FALSE, after |-> 0, first |-> NoResult, site |-> "",
          state0 |-> NoState, io |-> <<>>]

\* the client while the parser is exercised: constructed, never used
ClientUnused ==
    /\ client = [servers_info |-> <<1>>, server_idx |-> 0, state |-> NoState,
                 sid |-> 1, subscriptions |-> <<>>]
    /\ pc = "idle" /\ call = NoCall /\ obs = NoObs /\ res = NoResult /\ calls = 0

\* the parser while the client is exercised: constructed, never fed
ParserUnused ==
    /\ parser = NewParser /\ frames = <<>> /\ stream = <<>> /\ pos = 0
    /\ nevents = 0 /\ last = NoMsg(0) /\ split = FALSE

Subjects == {<<"f", "o">>, <<"f", SP, "o">>, <<"f", TAB>>}
Queues == {None, Some(<<"q">>), Some(<<"q", SP>>)}

Shuffles(n) == {f \in [1..n -> 1..n] : \A a, b \in 1..n : f[a] = f[b] => a = b}

\* Client::new: the endpoints in shuffled order, nothing connected
ClientInit ==
    /\ \E n \in 1..MaxServers : \E order \in Shuffles(n) :
         client = [servers_info |-> order, server_idx |-> 0, state |-> NoState,
                   sid |-> 1, subscriptions |-> <<>>]
    /\ pc = "idle"
    /\ call = NoCall
    /\ obs = NoObs
    /\ res = NoResult
    /\ calls = 0
    /\ ParserUnused

\* with_reconnect is entered: `let mut res = Err(IoError, "I/O error")`
EnterWithReconnect(c) == [c EXCEPT !.i = 0, !.wres = Err("IoError", "I/O error")]

\* Client::subscribe up to its first blocking operation: validation, the sid
\* taken from the counter, connect_if_needed.
Subscribe(subject, queue) ==
    /\ pc = "idle"
    /\ calls < MaxCalls
    /\ calls' = calls + 1
    /\ LET v1 == check_subject(subject)
           v2 == IF queue.some THEN check_queue(queue.v) ELSE OkUnit
           a  == alloc_sid(client)
           c0 == [NoCall EXCEPT !.subject = subject, !.queue = queue]
           o0 == [NoObs EXCEPT !.sid0 = client.sid, !.subs0 = client.subscriptions,
                               !.idx0 = client.server_idx, !.state0 = client.state]
       IN  IF ~v1.ok
           THEN /\ res' = v1 /\ pc' = "idle" /\ call' = c0 /\ obs' = o0
                /\ UNCHANGED client
           ELSE IF ~v2.ok
           THEN /\ res' = v2 /\ pc' = "idle" /\ obs' = o0
                /\ call' = [c0 EXCEPT !.sid = a.sid]
                /\ client' = a.client
           ELSE IF a.client.state.some
           THEN \* connect_if_needed: already connected
                /\ pc' = "with_reconnect"
                /\ call' = EnterWithReconnect([c0 EXCEPT !.sid = a.sid])
                /\ obs' = [o0 EXCEPT !.harness = "running"]
                /\ client' = a.client
                /\ res' = NoResult
           ELSE \* connect: `self.state = None`, then the rounds
                /\ pc' = "connect"
                /\ call' = [c0 EXCEPT !.sid = a.sid]
                /\ obs' = o0
                /\ client' = [a.client EXCEPT !.state = NoState]
                /\ res' = NoResult
    /\ UNCHANGED parserVars

\* connect: one pass of the inner loop, one try_connect against the current
\* candidate.  On success connect returns Ok and subscribe goes on to
\* subscribe_with_sid and with_reconnect.
TryConnectStep ==
    /\ pc = "connect"
    /\ rounds_left(call.round)
    /\ call.k < ServersCount
    /\ \E b \in BrokerBehaviours :
         LET out == try_connect(b)
             e   == CurrentEndpoint(client)
             st  == try_connect_state(b, e, client.state)
             o1  == [obs EXCEPT !.attempts = obs.attempts + 1,
                                !.tried = Append(obs.tried, client.server_idx),
                                !.stage = FailStage(b),
                                !.idx_before = client.server_idx,
                                !.oks = obs.oks + (IF out = "ok" THEN 1 ELSE 0)]
         IN  CASE out = "panic" ->
                    /\ pc' = "panic"
                    /\ obs' = [o1 EXCEPT !.site = "try_connect: write_all unwrap"]
                    /\ client' = [client EXCEPT !.state = st]
                    /\ UNCHANGED call
               [] out = "ok" /\ ~st.some ->
                    /\ pc' = "panic"
                    /\ obs' = [o1 EXCEPT !.site = "connect: Inconsitent state"]
                    /\ client' = [client EXCEPT !.state = st]
                    /\ UNCHANGED call
               [] out = "ok" /\ st.some ->
                    /\ pc' = "with_reconnect"
                    /\ obs' = [o1 EXCEPT !.connect_ret = "ok", !.harness = "running"]
                    /\ client' = [client EXCEPT !.state = st]
                    /\ call' = EnterWithReconnect(call)
               [] out = "err" ->
                    /\ pc' = "connect"
                    /\ obs' = o1
                    /\ client' = [client EXCEPT
                                    !.state = st,
                                    !.server_idx = next_idx(client.server_idx, ServersCount)]
                    /\ call' = [call EXCEPT !.k = call.k + 1]
    /\ UNCHANGED <<res, calls>>
    /\ UNCHANGED parserVars

\* connect: the inner loop is through, thread::sleep, next round
RoundPause ==
    /\ pc = "connect"
    /\ rounds_left(call.round)
    /\ call.k = ServersCount
    /\ call' = [call EXCEPT !.round = call.round + 1, !.k = 0]
    /\ obs' = [obs EXCEPT !.pauses = obs.pauses + 1]
    /\ UNCHANGED <<client, pc, res, calls>>
    /\ UNCHANGED parserVars

\* connect: the rounds are used up; Err goes through connect_if_needed and
\* the `?` of subscribe to the caller
ConnectFail ==
    /\ pc = "connect"
    /\ ~rounds_left(call.round)
    /\ pc' = "idle"
    /\ res' = ClusterUnreachable
    /\ obs' = [obs EXCEPT !.connect_ret = "err"]
    /\ UNCHANGED <<client, call, calls>>
    /\ UNCHANGED parserVars

\* with_reconnect: one pass of `for _ in 0..RETRIES_MAX`.  After the last
\* pass the loop ends, with_reconnect returns res and subscribe commits on
\* success and returns.
WithReconnectIter ==
    /\ pc = "with_reconnect"
    /\ call.i < RETRIES_MAX
    /\ IF ~client.state.some
       THEN \* self.state.take().unwrap() on None
            /\ pc' = "panic"
            /\ obs' = [obs EXCEPT !.site = "with_reconnect: unwrap on None",
                                  !.harness = "aborted"]
            /\ UNCHANGED <<client, call, res>>
       ELSE \E a \in AckBehaviours :
            LET r    == send_sub(call.sid, a)
                taken == [client EXCEPT !.state = NoState]
                sub  == [subject |-> call.subject, queue |-> call.queue]
                o1   == [obs EXCEPT !.fcalls = obs.fcalls + 1,
                                    !.sent = obs.sent + r.sent,
                                    !.pongs = r.pongs,
                                    !.io = r.io,
                                    !.acked = obs.acked \/ r.res.ok,
                                    !.after = obs.after + (IF obs.acked THEN 1 ELSE 0),
                                    !.first = IF obs.fcalls = 0 THEN r.res ELSE obs.first]
            IN  IF call.i + 1 < RETRIES_MAX
                THEN /\ pc' = "with_reconnect"
                     /\ call' = [call EXCEPT !.i = call.i + 1, !.wres = r.res]
                     /\ client' = taken
                     /\ obs' = o1
                     /\ UNCHANGED res
                ELSE /\ pc' = "idle"
                     /\ call' = [call EXCEPT !.i = call.i + 1, !.wres = r.res]
                     /\ client' = IF r.res.ok THEN commit(taken, call.sid, sub) ELSE taken
                     /\ obs' = [o1 EXCEPT !.harness = "returned"]
                     /\ res' = r.res
    /\ UNCHANGED calls
    /\ UNCHANGED parserVars

ClientNext ==
    \/ \E s \in Subjects, q \in Queues : Subscribe(s, q)
    \/ TryConnectStep
    \/ RoundPause
    \/ ConnectFail
    \/ WithReconnectIter

(***************************************************************************)
(* The caller of the parser                                                *)
(***************************************************************************)
ParserInit ==
    /\ frames \in FrameSeqs
    /\ stream = Concat([k \in 1..Len(frames) |-> Encode(frames[k])])
    /\ parser = NewParser
    /\ pos = 0
    /\ nevents = 0
    /\ last = NoMsg(0)
    /\ split = FALSE
    /\ ClientUnused

\* the chunk lengths the caller may choose: anything for the first call,
\* afterwards a short chunk or the rest of the stream
ChunkSizes ==
    IF pos = 0 THEN 1..Len(stream)
    ELSE (1..Min(MaxChunk, Len(stream) - pos)) \cup {Len(stream) - pos}

\* The caller hands the next n bytes of the stream to Parser::parse and
\* resumes at the returned offset.  After an error the caller drops the
\* session (spec section 4.1), so no further call is made.
ParseCall(n) ==
    /\ pos < Len(stream)
    /\ last.kind \notin {"Err", "Panic"}
    /\ n \in ChunkSizes
    /\ LET r == parse(parser, Slice(stream, pos, pos + n)) IN
        /\ parser' = r.p
        /\ last' = r.res
        /\ pos' = pos + r.res.consumed
        /\ nevents' = IF r.res.kind \in {"Sub", "Pub"} THEN nevents + 1 ELSE nevents
    /\ split' = (pos > 0)
    /\ UNCHANGED <<frames, stream>>
    /\ UNCHANGED clientVars

ParserNext == \E n \in 1..Len(stream) : ParseCall(n)

\* a fresh Parser and a stream holding one command, well formed or not
RawInit ==
    /\ frames \in {<<r>> : r \in RawFrames}
    /\ stream = RawEncode(frames[1])
    /\ parser = NewParser
    /\ pos = 0
    /\ nevents = 0
    /\ last = NoMsg(0)
    /\ split = FALSE
    /\ ClientUnused

(***************************************************************************)
(* Specifications                                                          *)
(***************************************************************************)
ParserSpec == ParserInit /\ [][ParserNext]_vars

\* the same caller over streams of one arbitrary command
RawSpec == RawInit /\ [][ParserNext]_vars

ClientSpec == ClientInit /\ [][ClientNext]_vars

\* the client's thread runs: blocking calls return and loops go on
ClientFairSpec == ClientSpec /\ WF_vars(ClientNext)

(***************************************************************************)
(* Properties of the decoder                                               *)
(***************************************************************************)
\* the first frame of the stream and its encoded length
Frame1 == frames[1]
Len1 == Len(Encode(Frame1))

\* the state right after the call that returned the first event
FirstEventJustReturned == nevents = 1 /\ pos = Len1 /\ last.kind \in {"Sub", "Pub"}

\* every frame of the stream has an argument line the scratch buffer holds
AllFit == \A k \in 1..Len(frames) : Fits(frames[k])

\* C1: frame after frame on one Parser, the k-th event is the k-th frame's:
\* no call fails on a stream of valid frames (with argument lines within the
\* buffer), and each event returned carries the subject (and for PUB the
\* size and the payload) of the frame it ends.
C1_FrameAfterFrame ==
    AllFit =>
        /\ last.kind \notin {"Err", "Panic"}
        /\ last.kind = "Sub" =>
             /\ frames[nevents].op = "SUB"
             /\ last.ev.subject = frames[nevents].subject
        /\ last.kind = "Pub" =>
             /\ frames[nevents].op = "PUB"
             /\ last.ev.subject = frames[nevents].subject
             /\ last.ev.size = Len(frames[nevents].payload)
             /\ last.ev.msg = frames[nevents].payload

\* C2: a SUB frame fed to a fresh decoder, in any chunking, yields one
\* Subscribe event with the encoded subject, sid (the trailing token) and
\* queue (the middle token, or None), having consumed exactly the frame.
C2_SubRoundTrip ==
    (frames # <<>> /\ Frame1.op = "SUB" /\ Fits(Frame1)) =>
        /\ nevents = 0 => (last.kind = "NoMsg" /\ pos < Len1)
        /\ nevents >= 1 => pos >= Len1
        /\ FirstEventJustReturned =>
             /\ last.kind = "Sub"
             /\ last.ev.subject = Frame1.subject
             /\ last.ev.sid = Frame1.sid
             /\ last.ev.queue = Frame1.queue

\* what C3 says of the stream's first frame, a PUB frame
PubRoundTrip ==
    /\ nevents = 0 => (last.kind = "NoMsg" /\ pos < Len1)
    /\ nevents >= 1 => pos >= Len1
    /\ FirstEventJustReturned =>
         /\ last.kind = "Pub"
         /\ last.ev.subject = Frame1.subject
         /\ last.ev.size = Len(Frame1.payload)
         /\ last.ev.msg = Frame1.payload

\* C3 as claimed: a PUB frame with any subject and payload fed to a fresh
\* decoder, whole or in any chunking, yields one Publish event with the
\* encoded subject, size and payload bytes, having consumed exactly the frame.
C3_PubRoundTrip ==
    (frames # <<>> /\ Frame1.op = "PUB") => PubRoundTrip

\* C3 as amended: the same for every PUB frame whose argument line
\* "<subject> <n>" is at most BUF_LEN bytes long, with the payload in the
\* scratch buffer or in the overflow buffer.
C3_PubRoundTripFitting ==
    (frames # <<>> /\ Frame1.op = "PUB" /\ Fits(Frame1)) => PubRoundTrip

\* a payload that went through the overflow buffer, fed in several calls,
\* came back unchanged
C3_Witness ==
    /\ frames # <<>> /\ Frame1.op = "PUB"
    /\ FirstEventJustReturned
    /\ split
    /\ parser.msg_buf.some
    /\ parser.arg_len + Len(Frame1.payload) > BUF_LEN
    /\ last.ev.msg = Frame1.payload

\* offset in the stream just past the k-th frame
RECURSIVE FramesEnd(_)
FramesEnd(k) == IF k = 0 THEN 0 ELSE FramesEnd(k - 1) + Len(Encode(frames[k]))

\* where a stream of valid frames stands after any number of calls: no call
\* failed, an event was returned exactly at the end of its frame, NoMsg
\* inside the frame that follows the events returned so far
ResumesAtFrameEnds ==
    AllFit =>
        /\ last.kind \in {"NoMsg", "Sub", "Pub"}
        /\ nevents <= Len(frames)
        /\ last.kind \in {"Sub", "Pub"} => pos = FramesEnd(nevents)
        /\ (last.kind = "NoMsg" /\ pos > 0) =>
             (nevents < Len(frames) /\ FramesEnd(nevents) < pos
                /\ pos < FramesEnd(nevents + 1))

\* one call: at most one event more, NoMsg consumes the whole chunk, an event
\* consumes up to the end of its frame and nothing of what follows
CallConsumes ==
    \A n \in 1..Len(stream) :
        ParseCall(n) =>
            /\ nevents' <= nevents + 1
            /\ last'.kind = "NoMsg" => (last'.consumed = n /\ pos' = pos + n)
            /\ last'.kind \in {"Sub", "Pub"} =>
                 (last'.consumed <= n /\ pos' = FramesEnd(nevents'))

\* C18: each call returns at most one event; NoMsg consumes the whole chunk;
\* an event consumes up to just past the LF that ends its frame, and feeding
\* on from that offset yields the next frame's event: on a stream of valid
\* frames no call fails and the k-th event ends at the end of the k-th frame.
C18_ConsumedCount == []ResumesAtFrameEnds /\ [][CallConsumes]_vars

(***************************************************************************)
(* Properties of the decoder over arbitrary commands (RawSpec)             *)
(***************************************************************************)
\* the command the stream holds
Raw1 == frames[1]

\* the tokens of an argument line: the maximal runs of bytes other than
\* space and tab
RECURSIVE SplitWs(_, _, _)
SplitWs(s, cur, acc) ==
    IF s = <<>> THEN (IF cur = <<>> THEN acc ELSE Append(acc, cur))
    ELSE IF Head(s) \in {SP, TAB}
         THEN SplitWs(Tail(s), <<>>, IF cur = <<>> THEN acc ELSE Append(acc, cur))
         ELSE SplitWs(Tail(s), Append(cur, Head(s)), acc)

TokenCount(line) == Len(SplitWs(line, <<>>, <<>>))

HasDelim(line) == \E k \in 1..Len(line) : line[k] \in {SP, TAB}

\* the text after the last space or tab of the line
TailText(line) ==
    LET k == CHOOSE j \in 1..Len(line) :
                 /\ line[j] \in {SP, TAB}
                 /\ \A i \in (j + 1)..Len(line) : line[i] \notin {SP, TAB}
    IN  Slice(line, k, Len(line))

IsNumber(t) == t # <<>> /\ \A k \in 1..Len(t) : IsDigit(t[k])

\* the line declares a byte count of 0 or of more than 1 MiB
DeclaredSizeViolation(line) ==
    /\ HasDelim(line)
    /\ IsNumber(TailText(line))
    /\ \/ DigitsValue(TailText(line), 0) = 0
       \/ DigitsValue(TailText(line), 0) > MAX_MSG_SIZE

\* the line has no delimiter, or its tail is not a non-negative integer
MalformedSize(line) == ~HasDelim(line) \/ ~IsNumber(TailText(line))

IsPubArgInput ==
    Raw1.verb = PUB_VERB /\ Raw1.line \in PubArgLines /\ Raw1.rest = <<"a">>

\* C12: when a PUB argument line ends, a declared byte count of 0 or of more
\* than 1 MiB gives MessageTooLarge and never ParseError, a line without
\* delimiter or with a tail that is not a non-negative integer gives
\* ParseError and never MessageTooLarge; neither gives a Publish event.
C12_PubArgErrorClasses ==
    (IsPubArgInput /\ (DeclaredSizeViolation(Raw1.line) \/ MalformedSize(Raw1.line))) =>
        /\ nevents = 0
        /\ last.kind \in {"NoMsg", "Err"}
        /\ last.kind = "NoMsg" => pos < LineEnd(Raw1)
        /\ last.kind = "Err" =>
             last.code = (IF DeclaredSizeViolation(Raw1.line)
                          THEN ERROR_MESSAGE_SIZE_TOO_LARGE ELSE ERROR_PARSE)

\* CR, then spaces and tabs, then LF
WellTerminated(t) ==
    /\ t # <<>> /\ t[1] = CR
    /\ \E k \in 2..Len(t) : t[k] = LF /\ \A j \in 2..(k - 1) : t[j] \in {SP, TAB}

IsTerminatorInput ==
    /\ Raw1.verb = PUB_VERB /\ Raw1.line = <<"F", SP, "1">>
    /\ Raw1.rest # <<>> /\ Head(Raw1.rest) = "a" /\ Tail(Raw1.rest) \in TerminatorTails

\* C13: once the declared number of payload bytes is in, the frame completes
\* only on CR, optional spaces and tabs, LF; when the byte after the payload
\* is not CR, or a later byte before the LF is not a space or tab, the result
\* is a parse error and no Publish event.
C13_PayloadTerminator ==
    IsTerminatorInput =>
        /\ last.kind \in {"NoMsg", "Pub", "Err"}
        /\ last.kind = "NoMsg" => pos < Len(stream)
        /\ last.kind = "Pub" => WellTerminated(Tail(Raw1.rest))
        /\ last.kind = "Err" =>
             (last.code = ERROR_PARSE /\ ~WellTerminated(Tail(Raw1.rest)))

\* C14: an overflow buffer is held only for a frame whose declared payload
\* size plus argument length exceeds BUF_LEN, and whenever the decoder is
\* back at the start of a frame none is held.
C14_OverflowBufferLifetime ==
    /\ parser.msg_buf.some => parser.arg_len + parser.msg_total_len > BUF_LEN
    /\ parser.state = "OpStart" => ~parser.msg_buf.some

\* the verb of the command in its canonical upper-case form
UpperVerb(r) == IF r.verb[1] \in {"S", "s"} THEN SUB_VERB ELSE PUB_VERB

\* what the decoder returns for the same command with the verb in upper case
CanonicalOutcome == parse(NewParser, RawEncode([Raw1 EXCEPT !.verb = UpperVerb(Raw1)])).res

IsCasedInput ==
    \/ Raw1.verb \in Casings(SUB_VERB) /\ Raw1.line = <<"f", "o", SP, "1">> /\ Raw1.rest = <<>>
    \/ Raw1.verb \in Casings(PUB_VERB) /\ Raw1.line = <<"F", SP, "1">>
         /\ Raw1.rest = <<"a", CR, LF>>

\* C15: a frame whose verb is written in any mix of upper and lower case has
\* the outcome of the same frame with the verb in upper case: the same event
\* and the same consumed count, in any chunking.
C15_VerbCaseInsensitive ==
    IsCasedInput =>
        /\ last.kind \in {"NoMsg", CanonicalOutcome.kind}
        /\ last.kind = "NoMsg" => pos < Len(stream)
        /\ last.kind # "NoMsg" =>
             (last.ev = CanonicalOutcome.ev /\ pos = CanonicalOutcome.consumed)

\* C16: whatever bytes are fed, in any chunking, every call to parse returns
\* a value, an event, NoMsg or an error; none panics.
C16_DecoderNeverAborts == last.kind # "Panic"

IsSubArgInput == Raw1.verb = SUB_VERB /\ Raw1.line \in SubArgLines /\ Raw1.rest = <<>>

\* C19: a SUB argument line gives a Subscribe event iff it has 2 or 3
\* tokens delimited by spaces and tabs; with 0, 1, 4 or more tokens it gives
\* a parse error and no event.
C19_SubTokenCount ==
    IsSubArgInput =>
        /\ last.kind \in {"NoMsg", "Sub", "Err"}
        /\ last.kind = "NoMsg" => pos < Len(stream)
        /\ last.kind = "Sub" => TokenCount(Raw1.line) \in {2, 3}
        /\ last.kind = "Err" =>
             (last.code = ERROR_PARSE /\ TokenCount(Raw1.line) \notin {2, 3})

\* the command's argument line is longer than the argument buffer
IsTooLongInput == Raw1.line \in LongLines /\ Len(Raw1.line) > BUF_LEN

\* C20: the argument length never exceeds BUF_LEN; an argument line of more
\* than BUF_LEN bytes gives a parse error, no event, at the first byte that
\* does not fit: the buffer then holds the first BUF_LEN bytes of the line
\* and no call has gone past the byte after them.
C20_ArgumentTooLong ==
    /\ parser.arg_len <= BUF_LEN
    /\ IsTooLongInput =>
         /\ nevents = 0
         /\ last.kind \in {"NoMsg", "Err"}
         /\ pos <= Len(Raw1.verb) + 1 + BUF_LEN
         /\ last.kind = "Err" =>
              /\ last.code = ERROR_PARSE
              /\ parser.arg_len = BUF_LEN
              /\ ArgBytes(parser) = Slice(Raw1.line, 0, BUF_LEN)

\* a SUB line two bytes too long, fed in several calls, was refused
C20_Witness ==
    /\ IsTooLongInput /\ Len(Raw1.line) = BUF_LEN + 2 /\ Raw1.verb = SUB_VERB
    /\ split
    /\ last.kind = "Err" /\ last.code = ERROR_PARSE
    /\ parser.arg_len = BUF_LEN

(***************************************************************************)
(* Properties of the client                                                *)
(***************************************************************************)
CallEnded == calls > 0 /\ pc \in {"idle", "panic"}

\* C4: a subscribe call with valid arguments whose SUB frame the broker
\* acknowledged returns Ok(Channel{sid}) with the sid the counter held on
\* entry, the counter advanced by one and the registry holding the entry.
C4_SuccessfulSubscribeCommits ==
    (CallEnded /\ obs.first.ok) =>
        /\ pc = "idle"
        /\ res = OkChannel(obs.sid0)
        /\ client.sid = wrapping_add(obs.sid0, 1)
        /\ obs.sid0 \in DOMAIN client.subscriptions
        /\ client.subscriptions[obs.sid0] = [subject |-> call.subject, queue |-> call.queue]

\* C5: with_reconnect invokes the operation at most RETRIES_MAX times, never
\* again after a success, and returns: the first success, else the last
\* failure.
C5_RetryHarnessResult ==
    /\ obs.fcalls <= RETRIES_MAX
    /\ obs.after = 0
    /\ obs.harness # "aborted"
    /\ obs.harness = "returned" =>
         res = (IF obs.acked THEN OkChannel(call.sid) ELSE call.wres)

\* C6: after a failed attempt with_reconnect never goes on without a
\* connection state: it does not abort for want of one.
C6_RetryRevalidates ==
    ~(obs.harness = "aborted" /\ ~call.wres.ok /\ ~client.state.some)

\* C7: a subscribe call that does not end in success leaves the sid counter
\* and the registry as they were on entry.
C7_FailedSubscribeChangesNothing ==
    (CallEnded /\ ~(pc = "idle" /\ res.ok)) =>
        /\ client.sid = obs.sid0
        /\ client.subscriptions = obs.subs0

\* a call whose SUB frame was written and whose acknowledgment failed is over
C7_Witness ==
    /\ CallEnded
    /\ obs.fcalls = 1 /\ obs.sent = 1 /\ ~obs.first.ok
    /\ client.sid = obs.sid0

ConnectBounds ==
    /\ obs.attempts <= CIRCUIT_BREAKER_ROUNDS_BEFORE_BREAKING * ServersCount
    /\ obs.pauses <= CIRCUIT_BREAKER_ROUNDS_BEFORE_BREAKING
    /\ pc = "connect" => obs.oks = 0
    /\ obs.connect_ret = "ok" => obs.oks = 1
    /\ obs.connect_ret = "err" =>
         /\ res = ClusterUnreachable
         /\ obs.oks = 0
         /\ obs.attempts = CIRCUIT_BREAKER_ROUNDS_BEFORE_BREAKING * ServersCount

C9_ConnectLeavesDefinedState ==
    /\ (pc = "with_reconnect" /\ call.i = 0 /\ obs.connect_ret = "ok") =>
         /\ client.state = ClientState(CurrentEndpoint(client))
         /\ obs.stage = ""
         /\ obs.idx_before = client.server_idx
    /\ pc = "connect" => ~client.state.some
    /\ obs.connect_ret = "err" => ~client.state.some

\* connect succeeded on a candidate it failed over to
C9_Witness ==
    /\ pc = "with_reconnect" /\ call.i = 0 /\ obs.connect_ret = "ok"
    /\ obs.attempts > 1
    /\ client.server_idx > 0
    /\ client.state = ClientState(CurrentEndpoint(client))

\* C10: whatever makes a candidate's handshake fail, connect goes on with the
\* next candidate (server_idx advanced modulo the list length) and an error
\* reaches the caller only when all rounds are used up.
C10_FailoverOnAnyFailure ==
    (obs.attempts > 0 /\ obs.stage # "") =>
        /\ pc # "panic"
        /\ client.server_idx = next_idx(obs.idx_before, ServersCount)
        /\ pc = "idle" =>
             obs.attempts = CIRCUIT_BREAKER_ROUNDS_BEFORE_BREAKING * ServersCount

(***************************************************************************)
(* Properties of the acknowledgment wait and of subscribe's validation     *)
(***************************************************************************)
\* a line that ends with LF, as opposed to a read cut short by end of stream
Complete(l) == l # <<>> /\ l[Len(l)] = LF

\* the SUB frame of the call in progress was written and wait_ok has run
WaitOkRan == obs.fcalls >= 1 /\ obs.sent >= 1

IsPingRead(o) == o = ReadOp(Line(PING_LINE))

\* every PING read is followed at once by the write of one PONG, and if that
\* write succeeds by the next read; nothing else is written; a failed read or
\* write and a line other than PING end the wait
KeepaliveInterleaving ==
    /\ obs.io # <<>> /\ obs.io[1].op = "read"
    /\ \A k \in 1..Len(obs.io) :
         /\ IsPingRead(obs.io[k]) =>
              (k < Len(obs.io) /\ obs.io[k + 1] \in {WriteOp(PONG_LINE), WriteFail(PONG_LINE)})
         /\ obs.io[k].op = "write" => (k > 1 /\ IsPingRead(obs.io[k - 1]))
         /\ obs.io[k] = WriteOp(PONG_LINE) =>
              (k < Len(obs.io) /\ obs.io[k + 1].op = "read")
         /\ (obs.io[k].op = "read" /\ ~IsPingRead(obs.io[k])) => k = Len(obs.io)
         /\ obs.io[k] = WriteFail(PONG_LINE) => k = Len(obs.io)
    /\ obs.pongs = Cardinality({k \in 1..Len(obs.io) : obs.io[k] = WriteOp(PONG_LINE)})

\* the wait ended on the read of a line (every PONG before it was written)
AckDecided ==
    /\ WaitOkRan
    /\ obs.io[Len(obs.io)].op = "read" /\ ~obs.io[Len(obs.io)].err

\* that line: the first one read that is not PING
AckLine == obs.io[Len(obs.io)].line

IncompleteResponse == Err("ServerProtocolError", "Incomplete server response")

\* C11 as claimed: wait_ok answers each PING with one PONG before it reads
\* on; it succeeds iff the first line that is not PING is exactly +OK CR LF;
\* any other complete line gives a server-protocol error carrying the line,
\* a read cut short or at end of stream gives the incomplete-response error.
C11_WaitOkKeepalive ==
    /\ WaitOkRan => KeepaliveInterleaving
    /\ AckDecided =>
         /\ obs.first.ok <=> AckLine = OK_LINE
         /\ (Complete(AckLine) /\ AckLine # OK_LINE) =>
              (obs.first.kind = "ServerProtocolError" /\ obs.first.detail = AckLine)
         /\ ~Complete(AckLine) => obs.first = IncompleteResponse

\* C11 as amended: the same, with the two errors told apart by the number of
\* bytes read: a line of at least 4 bytes other than +OK CR LF gives the
\* server-protocol error carrying the line, a read of fewer than 4 bytes
\* (end of stream included) gives the incomplete-response error.
C11_WaitOkKeepaliveByLength ==
    /\ WaitOkRan => KeepaliveInterleaving
    /\ AckDecided =>
         /\ obs.first.ok <=> AckLine = OK_LINE
         /\ (Len(AckLine) >= 4 /\ AckLine # OK_LINE) =>
              (obs.first.kind = "ServerProtocolError" /\ obs.first.detail = AckLine)
         /\ Len(AckLine) < 4 => obs.first = IncompleteResponse

\* a PING was answered with a PONG, then a four-byte read cut short by the
\* end of the stream was reported with its text
C11_Witness ==
    /\ WaitOkRan
    /\ obs.io = <<ReadOp(Line(PING_LINE)), WriteOp(PONG_LINE),
                  ReadOp(Line(<<"+", "O", "K", CR>>))>>
    /\ obs.first.kind = "ServerProtocolError"
    /\ obs.first.detail = <<"+", "O", "K", CR>>

HasWhitespace(s) == \E k \in 1..Len(s) : s[k] \in {SP, TAB, CR, LF}

\* C17: a subscribe call whose subject, or queue when present, contains a
\* whitespace character has returned a ClientProtocolError naming the field,
\* with no connection attempt, nothing written, and the connection state,
\* sid counter and registry as they were.
C17_ValidationPrecedesIO ==
    (calls > 0 /\ (HasWhitespace(call.subject)
                     \/ (call.queue.some /\ HasWhitespace(call.queue.v)))) =>
        /\ pc = "idle"
        /\ res = (IF HasWhitespace(call.subject)
                  THEN Err("ClientProtocolError", "Subject can't contain spaces")
                  ELSE Err("ClientProtocolError", "Queue name can't contain spaces"))
        /\ obs.attempts = 0 /\ obs.sent = 0 /\ obs.fcalls = 0
        /\ client.state = obs.state0
        /\ client.sid = obs.sid0
        /\ client.subscriptions = obs.subs0

(***************************************************************************)
(* Properties that compare runs, and of the events' fields                 *)
(***************************************************************************)
NoFailure == [failed |-> FALSE, kind |-> "", code |-> 0, what |-> <<>>, offset |-> 0]

\* The stream fed in the largest chunks there are: each call gets all that is
\* left, and the next one resumes at the consumed offset.  The events in
\* order, each with the stream offset at which it ends, and the error or
\* panic that ends the run, with the stream offset of its byte.
RECURSIVE RefRun(_, _, _)
RefRun(p, from, acc) ==
    IF from >= Len(stream) THEN [events |-> acc, end |-> NoFailure]
    ELSE LET r == parse(p, Slice(stream, from, Len(stream))) IN
         CASE r.res.kind \in {"Sub", "Pub"} ->
                RefRun(r.p, from + r.res.consumed,
                       Append(acc, [kind |-> r.res.kind, ev |-> r.res.ev,
                                    end |-> from + r.res.consumed]))
           [] r.res.kind = "NoMsg" -> [events |-> acc, end |-> NoFailure]
           [] OTHER ->
                [events |-> acc,
                 end |-> [failed |-> TRUE, kind |-> r.res.kind, code |-> r.res.code,
                          what |-> r.res.ev, offset |-> from + r.res.at]]

\* the same stream in the chunks of the run at hand agrees with ref so far
AgreesWith(ref) ==
    /\ nevents <= Len(ref.events)
    /\ last.kind \in {"Sub", "Pub"} =>
         /\ last.kind = ref.events[nevents].kind
         /\ last.ev = ref.events[nevents].ev
         /\ pos = ref.events[nevents].end
    /\ last.kind \in {"Err", "Panic"} =>
         /\ ref.end.failed
         /\ nevents = Len(ref.events)
         /\ last.kind = ref.end.kind /\ last.code = ref.end.code
         /\ last.ev = ref.end.what
         /\ pos + last.at = ref.end.offset
    /\ (ref.end.failed /\ nevents = Len(ref.events) /\ last.kind = "NoMsg") =>
         pos <= ref.end.offset
    /\ (last.kind = "NoMsg" /\ pos = Len(stream)) =>
         (~ref.end.failed /\ nevents = Len(ref.events))

\* C21: however the stream is cut into chunks, the decoder returns the same
\* events in the same order, each ending at the same stream offset, and if
\* the run ends in an error, the same error at the same stream offset.
C21_ChunkingInvariance == AgreesWith(RefRun(NewParser, 0, <<>>))

\* a stream of two commands fed in several calls gave its first event and
\* then, at the second command, the error the one-call run gives
C21_Witness ==
    /\ Raw1 \in TwoCommands
    /\ split
    /\ nevents = 1
    /\ last.kind = "Err"
    /\ RefRun(NewParser, 0, <<>>).end.failed
    /\ pos + last.at = RefRun(NewParser, 0, <<>>).end.offset

\* C22: every Publish event carries a payload of exactly size bytes, and its
\* size_buf is decimal text that parses to size, whichever delimiters
\* separate the subject from the size.
C22_PublishConsistency ==
    last.kind = "Pub" =>
        /\ Len(last.ev.msg) = last.ev.size
        /\ ParseUsize(last.ev.size_buf) = [ok |-> TRUE, v |-> last.ev.size]

\* how many of the attempts of the call went to candidate e
AttemptsAt(e) == Cardinality({k \in 1..Len(obs.tried) : obs.tried[k] = e})

\* C23: with at least one candidate server_idx is always an index of
\* servers_info; the attempts of one connect go through the candidates in
\* cyclic order from the index held on entry; a connect that gives up has
\* tried every candidate exactly ROUNDS times and leaves server_idx as it
\* found it.
C23_EndpointIndexDiscipline ==
    /\ ServersCount >= 1 => client.server_idx \in 0..(ServersCount - 1)
    /\ \A k \in 1..Len(obs.tried) :
         obs.tried[k] = (obs.idx0 + k - 1) % ServersCount
    /\ obs.connect_ret = "err" =>
         /\ \A e \in 0..(ServersCount - 1) :
              AttemptsAt(e) = CIRCUIT_BREAKER_ROUNDS_BEFORE_BREAKING
         /\ client.server_idx = obs.idx0

\* connect went round two candidates, wrapping from the last to the first,
\* gave up and left the index where it was
C23_Witness ==
    /\ obs.connect_ret = "err"
    /\ ServersCount = 2
    /\ Len(obs.tried) >= 3
    /\ obs.tried[2] = 1 /\ obs.tried[3] = 0
    /\ AttemptsAt(1) = CIRCUIT_BREAKER_ROUNDS_BEFORE_BREAKING
    /\ client.server_idx = obs.idx0

\* the next byte fed is a payload byte that add_msg stores in the scratch
\* buffer (parse, the OpMsgPayload arm, with no overflow buffer held)
InPlaceStorePending(p) ==
    /\ p.state = "OpMsgPayload"
    /\ ~p.msg_buf.some
    /\ p.msg_len < p.msg_total_len

\* C24: whenever a payload byte is about to be stored in the scratch buffer,
\* arg_len + msg_total_len <= BUF_LEN and the index written is below
\* BUF_LEN; no call ends in add_msg's panic.
C24_InPlacePayloadInBounds ==
    /\ InPlaceStorePending(parser) =>
         /\ parser.arg_len + parser.msg_total_len <= BUF_LEN
         /\ add_msg_index(parser) < BUF_LEN
    /\ ~(last.kind = "Panic" /\ last.ev = "add_msg")

\* the second frame of a stream is a PUB whose payload filled the scratch
\* buffer to its last byte and came back in the event
C24_Witness ==
    /\ nevents = 2
    /\ last.kind = "Pub"
    /\ ~parser.msg_buf.some
    /\ parser.arg_len + parser.msg_total_len = BUF_LEN
    /\ last.ev.msg = frames[2].payload
    /\ parser.buf[BUF_LEN] = frames[2].payload[Len(frames[2].payload)]

====
